---- MODULE Spec2Model ----
(***************************************************************************)
(* Head node of Clusrun (src/clusnode/headnode.go): the node registry      *)
(* driven by heartbeats, the validator goroutines, the GetNodes and        *)
(* GetValidNodes enumerations, the job dispatcher StartClusJob with its    *)
(* per-node handlers, and job cancellation.                                *)
(*                                                                         *)
(* Go strings are sequences of one-character strings, so that ToUpper,     *)
(* Split, Contains and the display-name construction are computed as the   *)
(* code computes them.  A sync.Map is a function whose DOMAIN is the set   *)
(* of keys present.  Every goroutine is a record with a program counter;   *)
(* one action is one atomic step of the code between two accesses of       *)
(* shared state.                                                           *)
(***************************************************************************)
EXTENDS Integers, Sequences, FiniteSets, TLC

\* ------------------------------------------------------------------ bounds
MaxHB == 3          \* heartbeats received in one behaviour of Spec
MaxTime == 2        \* the clock runs from 0 to MaxTime
MaxFail == 2        \* largest failure count a validator may write
MaxEnum == 1        \* registry enumerations (GetNodes, StartClusJob) in one behaviour
MaxSlots == 2       \* Heartbeat handlers and validators in flight at once
MaxMsgs == 2        \* messages one worker stream delivers before it ends
MaxJobId == 2       \* job ids CancelJobs may return
MaxCount == 8       \* largest node count parseSweep is called with
MaxRetry == 10      \* largest failure count a validator writes in SpecRetry

\* ------------------------------------------------------- configuration
\* Config_Headnode_HeartbeatTimeoutSecond, in clock ticks
HeartbeatTimeoutSecond == 1
\* DefaultPort, the port assumed when a host address names none
DefaultPort == <<"5">>

\* ------------------------------------------------------------------ strings
Lower == <<"a", "b", "c", "d", "e", "f", "g", "h", "i", "j", "k", "l", "m",
           "n", "o", "p", "q", "r", "s", "t", "u", "v", "w", "x", "y", "z">>
Upper == <<"A", "B", "C", "D", "E", "F", "G", "H", "I", "J", "K", "L", "M",
           "N", "O", "P", "Q", "R", "S", "T", "U", "V", "W", "X", "Y", "Z">>
Digits == <<"0", "1", "2", "3", "4", "5", "6", "7", "8", "9">>
\* the characters of the model in byte order
Ascii == <<" ", "(", ")", "+", ",", "-">> \o Digits \o <<":">> \o Upper
         \o Lower \o <<"{", "}">>

CharOrd(c) == CHOOSE i \in DOMAIN Ascii : Ascii[i] = c

ToUpperChar(c) ==
    IF \E i \in DOMAIN Lower : Lower[i] = c
    THEN Upper[CHOOSE i \in DOMAIN Lower : Lower[i] = c]
    ELSE c

\* strings.ToUpper
ToUpper(s) == [i \in DOMAIN s |-> ToUpperChar(s[i])]

\* strings.ContainsAny(s, chars)
ContainsAny(s, chars) == \E i \in DOMAIN s : s[i] \in chars

\* strings.Contains(s, sub)
Contains(s, sub) ==
    \E i \in 0..(Len(s) - Len(sub)) :
        \A j \in 1..Len(sub) : s[i + j] = sub[j]

RECURSIVE SplitFrom(_, _, _, _)
SplitFrom(s, sep, i, cur) ==
    IF i > Len(s) THEN <<cur>>
    ELSE IF s[i] = sep THEN <<cur>> \o SplitFrom(s, sep, i + 1, <<>>)
    ELSE SplitFrom(s, sep, i + 1, Append(cur, s[i]))

\* strings.Split(s, sep) for a one-character separator
Split(s, sep) == SplitFrom(s, sep, 1, <<>>)

\* s < t in the byte order sort.Strings uses
StrLess(s, t) ==
    \E k \in 1..(Len(t)) :
        /\ \A j \in 1..(k - 1) : j <= Len(s) /\ s[j] = t[j]
        /\ \/ k = Len(s) + 1
           \/ k <= Len(s) /\ CharOrd(s[k]) < CharOrd(t[k])

\* sort.Strings on a sequence of strings
RECURSIVE SortStrings(_)
SortStrings(q) ==
    IF Len(q) = 0 THEN <<>>
    ELSE LET i == CHOOSE x \in DOMAIN q :
                     /\ \A y \in DOMAIN q : ~StrLess(q[y], q[x])
                     /\ \A y \in 1..(x - 1) : q[y] # q[x]
             rest == [k \in 1..(Len(q) - 1) |-> IF k < i THEN q[k] ELSE q[k + 1]]
         IN <<q[i]>> \o SortStrings(rest)

\* ------------------------------------------------------------- sync.Map
NoMap == [k \in {} |-> 0]
MapStore(m, k, v) == [x \in DOMAIN m \cup {k} |-> IF x = k THEN v ELSE m[x]]
MapDelete(m, k) == [x \in DOMAIN m \ {k} |-> m[x]]

\* ------------------------------------------------------- host addresses
AllDigits(s) == Len(s) > 0 /\ \A i \in DOMAIN s : \E d \in DOMAIN Digits : Digits[d] = s[i]

\* ParseHostAddress(host): (hostname, port, host, err).  Case-insensitive,
\* canonical form HOSTNAME:PORT, DefaultPort when the port is omitted.
ParseHostAddress(host) ==
    LET parts == Split(ToUpper(host), ":")
        hostname == parts[1]
        port == IF Len(parts) = 1 THEN DefaultPort ELSE parts[2]
        bad == \/ Len(parts) > 2
               \/ Len(hostname) = 0
               \/ ~AllDigits(port)
               \/ ContainsAny(hostname, {"(", ")"})
    IN [hostname |-> hostname, port |-> port,
        host |-> hostname \o <<":">> \o port, err |-> bad]

\* the display name Heartbeat computes for (upper-cased nodename, parsed host)
DisplayName(nodename, parsed) ==
    IF parsed.hostname = nodename /\ parsed.port = DefaultPort
    THEN nodename
    ELSE nodename \o <<"(">> \o parsed.host \o <<")">>

ParseHost(display_name) ==
    LET segs == Split(display_name, "(")
    IN IF Len(segs) <= 1
       THEN display_name \o <<":">> \o DefaultPort
       ELSE SubSeq(segs[2], 1, Len(segs[2]) - 1)

\* regexp.MatchString(pattern, name) for the literal patterns of the model:
\* an unanchored literal matches where it occurs as a substring
Matched(pattern, name) == Contains(name, pattern)


\* ------------------------------------------------------------ parseSweep
\* Max_Int and Min_Int, the defaults of end (line 453 and line 475)
Max_Int == 2147483647
Min_Int == -2147483647

DigitVal(c) == (CHOOSE d \in DOMAIN Digits : Digits[d] = c) - 1

RECURSIVE DigitsValue(_)
DigitsValue(s) ==
    IF Len(s) = 0 THEN 0
    ELSE 10 * DigitsValue(SubSeq(s, 1, Len(s) - 1)) + DigitVal(s[Len(s)])

\* strconv.Atoi: an optional sign and at least one decimal digit
Atoi(s) ==
    LET signed == Len(s) > 0 /\ s[1] \in {"+", "-"}
        body == IF signed THEN Tail(s) ELSE s
    IN IF ~AllDigits(body) THEN [err |-> TRUE, v |-> 0]
       ELSE [err |-> FALSE,
             v |-> IF signed /\ s[1] = "-" THEN 0 - DigitsValue(body)
                   ELSE DigitsValue(body)]

RECURSIVE NatDigits(_)
NatDigits(n) ==
    IF n < 10 THEN <<Digits[n + 1]>>
    ELSE Append(NatDigits(n \div 10), Digits[(n % 10) + 1])

\* strconv.Itoa
Itoa(n) == IF n < 0 THEN <<"-">> \o NatDigits(0 - n) ELSE NatDigits(n)

\* strings.LastIndex(s, c) for a one-character c, counted from 0; -1 if absent
LastIndex(s, c) ==
    IF \E i \in DOMAIN s : s[i] = c
    THEN (CHOOSE i \in DOMAIN s : s[i] = c /\ \A j \in DOMAIN s : s[j] = c => j <= i) - 1
    ELSE -1

RECURSIVE ReplaceFrom(_, _, _, _)
ReplaceFrom(s, old, new, i) ==
    IF i > Len(s) THEN <<>>
    ELSE IF i + Len(old) - 1 <= Len(s) /\ SubSeq(s, i, i + Len(old) - 1) = old
    THEN new \o ReplaceFrom(s, old, new, i + Len(old))
    ELSE <<s[i]>> \o ReplaceFrom(s, old, new, i + 1)

\* strings.ReplaceAll(s, old, new) for a non-empty old
ReplaceAll(s, old, new) == ReplaceFrom(s, old, new, 1)

\* the sequence 0, 1, ..., count-1 of lines 449-452
Indices(count) == [i \in 1..count |-> i - 1]

\* variant of SweepFail: the returns of lines 534, 550 and 553 are missing
SweepFailAccepted == [err |-> FALSE, begin |-> 0, hasEnd |-> FALSE, end |-> 0]

\* the returns of lines 534, 550 and 553: the pieces fit no form of the range
SweepFail == [err |-> TRUE, begin |-> 0, hasEnd |-> FALSE, end |-> 0]
SweepBegin(b) == [err |-> b.err, begin |-> b.v, hasEnd |-> FALSE, end |-> 0]
SweepBeginEnd(b, e) ==
    [err |-> b.err \/ e.err, begin |-> b.v, hasEnd |-> TRUE, end |-> e.v]

\* lines 479-554: the range text, split on "-", gives begin and maybe end
ParseRange(text) ==
    LET parts == Split(text, "-")
        neg(x) == Atoi(<<"-">> \o x)
    IN IF Len(parts) = 1 THEN SweepBegin(Atoi(parts[1]))
       ELSE IF Len(parts) = 2
       THEN IF Len(parts[1]) = 0 THEN SweepBegin(neg(parts[2]))
            ELSE SweepBeginEnd(Atoi(parts[1]), Atoi(parts[2]))
       ELSE IF Len(parts) = 3
       THEN IF Len(parts[1]) = 0 THEN SweepBeginEnd(neg(parts[2]), Atoi(parts[3]))
            ELSE IF Len(parts[2]) = 0 THEN SweepBeginEnd(Atoi(parts[1]), neg(parts[3]))
            ELSE SweepFail
       ELSE IF Len(parts) = 4
       THEN IF Len(parts[1]) = 0 \/ Len(parts[3]) = 0
            THEN SweepBeginEnd(neg(parts[2]), neg(parts[4]))
            ELSE SweepFail
       ELSE SweepFail

\* lines 557-564: the step used when none was given
DefaultStep(begin, end) ==
    IF begin < end THEN 1 ELSE IF begin > end THEN -1 ELSE 0

\* variant of SweepWraps: the tests of line 569 written n >= end and n <= end
SweepWrapsAtEnd(n, end, step) == (step > 0 /\ n >= end) \/ (step < 0 /\ n <= end)

\* line 569: the next term wraps back to begin
SweepWraps(n, end, step) == (step > 0 /\ n > end) \/ (step < 0 /\ n < end)

\* lines 565-572: the terms from n on, count of them
RECURSIVE SweepTerms(_, _, _, _, _)
SweepTerms(n, begin, end, step, count) ==
    IF count = 0 THEN <<>>
    ELSE <<n>> \o SweepTerms(IF SweepWraps(n + step, end, step) THEN begin ELSE n + step,
                            begin, end, step, count - 1)

\* parseSweep(sweep, count): (placeholder, sequence)
parseSweep(sweep, count) ==
    LET fallback == [placeholder |-> sweep, sequence |-> Indices(count)]
        index == LastIndex(sweep, "{")
        fields == Split(SubSeq(sweep, index + 2, Len(sweep) - 1), ",")
        s == IF Len(fields) = 2 THEN Atoi(fields[2]) ELSE [err |-> FALSE, v |-> 0]
        r == ParseRange(fields[1])
        end == IF r.hasEnd THEN r.end ELSE IF s.v < 0 THEN Min_Int ELSE Max_Int
        step == IF s.v = 0 THEN DefaultStep(r.begin, end) ELSE s.v
    IN IF Len(sweep) = 0 THEN fallback
       ELSE IF sweep[Len(sweep)] # "}" THEN fallback
       ELSE IF index < 0 THEN fallback
       ELSE IF index = 0 THEN fallback
       ELSE IF Len(fields) > 2 THEN fallback
       ELSE IF Len(fields) = 2 /\ (s.err \/ s.v = 0) THEN fallback
       ELSE IF r.err THEN fallback
       ELSE [placeholder |-> SubSeq(sweep, 1, index),
             sequence |-> SweepTerms(r.begin, r.begin, end, step, count)]

\* ------------------------------------------------------------------ state
VARIABLES
    reportedTime,     \* sync.Map display name -> time of the last heartbeat
    validateNumber,   \* sync.Map display name -> validation number
    now,              \* the clock time.Now() reads
    hb,               \* Heartbeat handlers in flight, by slot
    val,              \* Validate goroutines, by the slot of their heartbeat
    hbCount,          \* heartbeats received so far
    hbErr,            \* the last error Heartbeat returned, with its request
    gn,               \* the GetNodes call
    enumCount,        \* GetNodes and StartClusJob calls so far
    epoch,            \* history: display name -> number of (re)connections
    okEpochs,         \* history: display name -> epochs of the attempts that succeeded
    poisoned,         \* history: names with a mismatch stored since their last clearing
    mismatched,       \* history: names with a mismatch stored and neither cleared
                      \* nor followed by the write of a success
    job,              \* the StartClusJob call with its locals
    out,              \* the replies sent on the client stream, in order
    clientUp,         \* whether a Send on the client stream succeeds
    store,            \* the calls made on the JobStore, in order
    handlers,         \* the StartJobOnNode goroutines, by node
    job_on_nodes,     \* sync.Map node -> jobOnNode of the job
    wg,               \* the WaitGroup counter of the job
    streams,          \* history: what the worker stream of each node delivered
    ccall,            \* the CancelClusJobs call
    cjob,             \* the CancelJob goroutines, by job id
    cnode,            \* the CancelJobOnNode goroutines, by <<job id, node>>
    cstore,           \* the UpdateCancelledJob calls made on the JobStore, in order
    coutcome          \* history: how the cancel attempt on <<job id, node>> ended

regVars == <<reportedTime, validateNumber, now, hb, val, hbCount, hbErr,
             gn, enumCount, epoch, okEpochs, poisoned, mismatched>>
jobVars == <<job, out, clientUp, store, handlers, job_on_nodes, wg, streams>>
\* what no step of the registry changes
cancelVars == <<ccall, cjob, cnode, cstore, coutcome>>
nonRegVars == <<jobVars, cancelVars>>

Slots == 1..MaxSlots

\* the heartbeat requests of the model: (nodename, host)
HeartbeatRequests ==
    { [nodename |-> <<"a">>, host |-> <<"a">>],
      [nodename |-> <<"A">>, host |-> <<"a", ":", "5">>],
      [nodename |-> <<"a", "(">>, host |-> <<"a">>],
      [nodename |-> <<"a">>, host |-> <<":">>] }

ValidateResults == { "dialerr", "err", "mismatch", "match" }

\* the GetNodes requests of the model: (pattern, state filter)
GetNodesRequests ==
    { [pattern |-> <<>>, state |-> "Unknown"],
      [pattern |-> <<"B">>, state |-> "Unknown"],
      [pattern |-> <<>>, state |-> "Ready"] }

IdleHB == [pc |-> "idle", display_name |-> <<>>, nodename |-> <<>>,
           host |-> <<>>, t |-> 0, kind |-> "none"]
IdleVal == [pc |-> "idle", display_name |-> <<>>, nodename |-> <<>>,
            host |-> <<>>, number |-> 0, result |-> "none", epoch |-> 0,
            kind |-> "none"]
IdleGN == [pc |-> "idle", pattern |-> <<>>, state |-> "Unknown",
           startKeys |-> {}, visited |-> {}, cur |-> <<>>, last_report |-> 0,
           nodes |-> <<>>]

\* no Heartbeat has returned an error
NoError == [error |-> "none", nodename |-> <<>>, host |-> <<>>]

EpochOf(d) == IF d \in DOMAIN epoch THEN epoch[d] ELSE 0
OkEpochsOf(d) == IF d \in DOMAIN okEpochs THEN okEpochs[d] ELSE {}

\* HeartbeatTimeout(last_report)
HeartbeatTimeout(last_report) == now - last_report > HeartbeatTimeoutSecond

FreeSlot(i) == hb[i].pc = "idle" /\ val[i].pc = "idle"

InitRegistry ==
    /\ reportedTime = NoMap
    /\ validateNumber = NoMap
    /\ now = 0
    /\ hb = [i \in Slots |-> IdleHB]
    /\ val = [i \in Slots |-> IdleVal]
    /\ hbCount = 0
    /\ hbErr = NoError
    /\ gn = IdleGN
    /\ enumCount = 0
    /\ epoch = NoMap
    /\ okEpochs = NoMap
    /\ poisoned = {}
    /\ mismatched = {}

\* ------------------------------------------------------------------ clock
Tick ==
    /\ now < MaxTime
    /\ now' = now + 1
    /\ UNCHANGED <<nonRegVars, reportedTime, validateNumber, hb, val, hbCount, hbErr,
                   gn, enumCount, epoch, okEpochs, poisoned, mismatched>>

\* -------------------------------------------------------------- Heartbeat
\* the case of lines 55-60 for the value reportedTime.Load returned: the
\* first heartbeat of the node, a reconnection, or a repeated heartbeat
HeartbeatKind(d) ==
    IF d \notin DOMAIN reportedTime THEN "first"
    ELSE IF HeartbeatTimeout(reportedTime[d]) THEN "reconnect"
    ELSE "repeat"

\* only a reconnection goes through line 59
HeartbeatBranch(kind) == IF kind = "reconnect" THEN "delete" ELSE "store"

\* lines 38-57 for a well-formed request: the display name is computed,
\* reportedTime.Load is done and the timeout tested; time.Now() of line 61
\* is evaluated next unless the node is to be cleared first
HeartbeatAccept(i, req) ==
    LET nodename == ToUpper(req.nodename)
        parsed == ParseHostAddress(req.host)
        d == DisplayName(nodename, parsed)
    IN /\ hb' = [hb EXCEPT ![i] = [pc |-> HeartbeatBranch(HeartbeatKind(d)),
                                  display_name |-> d,
                                  nodename |-> nodename,
                                  host |-> parsed.host,
                                  t |-> now,
                                  kind |-> HeartbeatKind(d)]]
       /\ hbErr' = hbErr

\* lines 39-47: the request is rejected
HeartbeatReject(req) ==
    /\ hbErr' = [error |-> IF ContainsAny(req.nodename, {"(", ")"})
                           THEN "Invalid nodename" ELSE "Invalid host format",
                 nodename |-> req.nodename, host |-> req.host]
    /\ hb' = hb

\* variant of HeartbeatArrive: the test of the nodename (lines 39-42) is missing
HeartbeatArriveUnchecked(req) ==
    \E i \in Slots :
        /\ FreeSlot(i)
        /\ \A j \in Slots : FreeSlot(j) => i <= j
        /\ IF ParseHostAddress(req.host).err
           THEN HeartbeatReject(req)
           ELSE HeartbeatAccept(i, req)

\* a Heartbeat request arrives at a free handler slot
HeartbeatArrive(req) ==
    \E i \in Slots :
        /\ FreeSlot(i)
        /\ \A j \in Slots : FreeSlot(j) => i <= j
        /\ IF \/ ContainsAny(req.nodename, {"(", ")"})
              \/ ParseHostAddress(req.host).err
           THEN HeartbeatReject(req)
           ELSE HeartbeatAccept(i, req)

HeartbeatBegin(req) ==
    /\ hbCount < MaxHB
    /\ HeartbeatArrive(req)
    /\ hbCount' = hbCount + 1
    /\ UNCHANGED <<nonRegVars, reportedTime, validateNumber, now, val, gn, enumCount,
                   epoch, okEpochs, poisoned, mismatched>>

\* line 59: validateNumber.Delete of a node that reconnected; line 61
\* evaluates time.Now() next
HeartbeatDelete(i) ==
    LET d == hb[i].display_name
    IN /\ hb[i].pc = "delete"
       /\ validateNumber' = MapDelete(validateNumber, d)
       /\ hb' = [hb EXCEPT ![i].pc = "store", ![i].t = now]
       /\ epoch' = MapStore(epoch, d, EpochOf(d) + 1)
       /\ poisoned' = poisoned \ {d}
       /\ mismatched' = mismatched \ {d}
       /\ UNCHANGED <<nonRegVars, reportedTime, now, val, hbCount, hbErr, gn, enumCount,
                      okEpochs>>

\* lines 61-63: reportedTime.Store, go Validate, return
HeartbeatStore(i) ==
    LET d == hb[i].display_name
        e == IF d \in DOMAIN reportedTime THEN EpochOf(d) ELSE EpochOf(d) + 1
    IN /\ hb[i].pc = "store"
       /\ reportedTime' = MapStore(reportedTime, d, hb[i].t)
       /\ epoch' = MapStore(epoch, d, e)
       /\ val' = [val EXCEPT ![i] = [pc |-> "start", display_name |-> d,
                                    nodename |-> hb[i].nodename,
                                    host |-> hb[i].host, number |-> 0,
                                    result |-> "none", epoch |-> e,
                                    kind |-> hb[i].kind]]
       /\ hb' = [hb EXCEPT ![i] = IdleHB]
       /\ UNCHANGED <<nonRegVars, validateNumber, now, hbCount, hbErr, gn, enumCount,
                      okEpochs, poisoned, mismatched>>

\* --------------------------------------------------------------- Validate
\* variant of ValidateEnter: a validator that finds a failure count returns
\* instead of retrying
ValidateEnterOnce(number, ok) ==
    IF ~ok THEN "dial" ELSE "idle"

\* variant of ValidateEnter: the test of line 217 written number >= 0, so
\* that a validator also runs when a validation is in progress
ValidateEnterInProgress(number, ok) ==
    IF ~ok THEN "dial"
    ELSE IF number >= 0 THEN "mark"
    ELSE "idle"

\* what a validator does after validateNumber.LoadOrStore(display_name, 0)
\* returned (number, ok), line 217
ValidateEnter(number, ok) ==
    IF ~ok THEN "dial"
    ELSE IF number > 0 THEN "mark"
    ELSE "idle"

\* line 217: LoadOrStore
ValidateStart(i) ==
    LET d == val[i].display_name
        ok == d \in DOMAIN validateNumber
        number == IF ok THEN validateNumber[d] ELSE 0
    IN /\ val[i].pc = "start"
       /\ validateNumber' = IF ok THEN validateNumber ELSE MapStore(validateNumber, d, 0)
       /\ val' = [val EXCEPT ![i] =
                     IF ValidateEnter(number, ok) = "idle" THEN IdleVal
                     ELSE [val[i] EXCEPT !.pc = ValidateEnter(number, ok),
                                         !.number = number]]
       /\ UNCHANGED <<nonRegVars, reportedTime, now, hb, hbCount, hbErr, gn, enumCount,
                      epoch, okEpochs, poisoned, mismatched>>

\* lines 220-225: Store 0, then the backoff sleep
ValidateMark(i) ==
    /\ val[i].pc = "mark"
    /\ validateNumber' = MapStore(validateNumber, val[i].display_name, 0)
    /\ val' = [val EXCEPT ![i].pc = "dial"]
    /\ UNCHANGED <<nonRegVars, reportedTime, now, hb, hbCount, hbErr, gn, enumCount,
                   epoch, okEpochs, poisoned, mismatched>>

\* variant of FailureNumber: a failed attempt counts twice
FailureNumberByTwo(number) == number + 2

\* the number a failed attempt writes, lines 231 and 245
FailureNumber(number) == number + 1

\* lines 228-242: grpc.Dial and the Validate RPC; the worker's answer (or
\* the failure of the dial or of the call) is in hand, not yet stored
ValidateCall(i, result) ==
    /\ val[i].pc = "dial"
    /\ result \in {"dialerr", "err"} => FailureNumber(val[i].number) <= MaxFail
    /\ val' = [val EXCEPT ![i].pc = "write", ![i].result = result]
    /\ UNCHANGED <<nonRegVars, reportedTime, validateNumber, now, hb, hbCount, hbErr,
                   gn, enumCount, epoch, okEpochs, poisoned, mismatched>>

\* the number lines 243-252 store for the answer
OutcomeNumber(result, number) ==
    IF result \in {"dialerr", "err"} THEN FailureNumber(number)
    ELSE IF result = "mismatch" THEN 10
    ELSE -1

\* lines 231 and 243-252: the outcome is stored
ValidateWrite(i) ==
    LET d == val[i].display_name
        n == OutcomeNumber(val[i].result, val[i].number)
    IN /\ val[i].pc = "write"
       /\ validateNumber' = MapStore(validateNumber, d, n)
       /\ okEpochs' = IF n = -1
                      THEN MapStore(okEpochs, d, OkEpochsOf(d) \cup {val[i].epoch})
                      ELSE okEpochs
       /\ poisoned' = IF val[i].result = "mismatch" THEN poisoned \cup {d} ELSE poisoned
       /\ mismatched' = IF val[i].result = "mismatch" THEN mismatched \cup {d}
                        ELSE IF n = -1 THEN mismatched \ {d}
                        ELSE mismatched
       /\ val' = [val EXCEPT ![i] = IdleVal]
       /\ UNCHANGED <<nonRegVars, reportedTime, now, hb, hbCount, hbErr, gn, enumCount, epoch>>

\* --------------------------------------------------------------- GetNodes
GetNodesBegin(pattern, state) ==
    /\ gn.pc \in {"idle", "done"}
    /\ enumCount < MaxEnum
    /\ enumCount' = enumCount + 1
    /\ gn' = [IdleGN EXCEPT !.pc = "range", !.pattern = pattern, !.state = state,
                            !.startKeys = DOMAIN reportedTime]
    /\ UNCHANGED <<nonRegVars, reportedTime, validateNumber, now, hb, val, hbCount, hbErr,
                   epoch, okEpochs, poisoned, mismatched>>

\* lines 86-88: the node is appended when the filter admits its state
GetNodesAppend(nodes, name, filter, state) ==
    IF filter = "Unknown" \/ filter = state
    THEN Append(nodes, [name |-> name, state |-> state,
                        justified |-> EpochOf(name) \in OkEpochsOf(name),
                        poisoned |-> name \in poisoned,
                        mismatched |-> name \in mismatched,
                        validated |-> name \in DOMAIN validateNumber
                                      /\ validateNumber[name] = -1])
    ELSE nodes

\* lines 70-75: Range yields the next key with its value
GetNodesRange(k) ==
    /\ gn.pc = "range"
    /\ k \in DOMAIN reportedTime \ gn.visited
    /\ gn' = IF Matched(gn.pattern, k)
             THEN [gn EXCEPT !.pc = "check", !.cur = k,
                             !.last_report = reportedTime[k],
                             !.visited = gn.visited \cup {k}]
             ELSE [gn EXCEPT !.visited = gn.visited \cup {k}]
    /\ UNCHANGED <<nonRegVars, reportedTime, validateNumber, now, hb, val, hbCount, hbErr,
                   enumCount, epoch, okEpochs, poisoned, mismatched>>

\* lines 77-78: the timeout test of the value Range yielded
GetNodesCheck ==
    /\ gn.pc = "check"
    /\ gn' = IF HeartbeatTimeout(gn.last_report)
             THEN [gn EXCEPT !.pc = "range",
                             !.nodes = GetNodesAppend(gn.nodes, gn.cur, gn.state, "Lost")]
             ELSE [gn EXCEPT !.pc = "load"]
    /\ UNCHANGED <<nonRegVars, reportedTime, validateNumber, now, hb, val, hbCount, hbErr,
                   enumCount, epoch, okEpochs, poisoned, mismatched>>

\* variant of ReportedState: the test of line 80 written number != 0
ReportedStateNonZero(name) ==
    IF name \in DOMAIN validateNumber /\ validateNumber[name] # 0
    THEN "Ready" ELSE "Error"

\* the state lines 80-84 give a node that has not timed out
ReportedState(name) ==
    IF name \in DOMAIN validateNumber /\ validateNumber[name] < 0
    THEN "Ready" ELSE "Error"

\* lines 80-88: validateNumber.Load
GetNodesLoad ==
    /\ gn.pc = "load"
    /\ gn' = [gn EXCEPT !.pc = "range",
                        !.nodes = GetNodesAppend(gn.nodes, gn.cur, gn.state,
                                                 ReportedState(gn.cur))]
    /\ UNCHANGED <<nonRegVars, reportedTime, validateNumber, now, hb, val, hbCount, hbErr,
                   enumCount, epoch, okEpochs, poisoned, mismatched>>

\* lines 91-92: Range has visited every key it had to, the reply is returned
GetNodesReturn ==
    /\ gn.pc = "range"
    /\ gn.startKeys \subseteq gn.visited
    /\ gn' = [gn EXCEPT !.pc = "done"]
    /\ UNCHANGED <<nonRegVars, reportedTime, validateNumber, now, hb, val, hbCount, hbErr,
                   enumCount, epoch, okEpochs, poisoned, mismatched>>

\* ----------------------------------------------------------- StartClusJob
\* the StartClusJob requests of the model
JobRequests ==
    { [command |-> <<"e", "x">>, nodes |-> <<>>, pattern |-> <<"A">>,
       sweep |-> <<>>, save_output |-> FALSE],
      [command |-> <<"e", "x">>, nodes |-> <<>>, pattern |-> <<>>,
       sweep |-> <<"x", "{", "1", "-", "3", "}">>, save_output |-> TRUE],
      [command |-> <<"e", "x">>, nodes |-> <<>>, pattern |-> <<"B">>,
       sweep |-> <<"x", "{", "5", ",", "-", "1", "}">>, save_output |-> FALSE],
      [command |-> <<"e", "x">>, nodes |-> << <<"a">>, <<"A">> >>, pattern |-> <<>>,
       sweep |-> <<>>, save_output |-> TRUE],
      [command |-> <<"e", "x">>, nodes |-> << <<"h", ":", "6">> >>, pattern |-> <<>>,
       sweep |-> <<>>, save_output |-> FALSE],
      [command |-> <<"e", "x">>, nodes |-> << <<"A">>, <<"c">> >>, pattern |-> <<>>,
       sweep |-> <<>>, save_output |-> FALSE],
      [command |-> <<"e", "x">>, nodes |-> <<>>, pattern |-> <<>>,
       sweep |-> <<"y", "{", "1", "}">>, save_output |-> FALSE],
      [command |-> <<"e", "x">>, nodes |-> <<>>, pattern |-> <<>>,
       sweep |-> <<"x", "{">>, save_output |-> FALSE] }

\* the requests made while heartbeats and validators run
RegistryJobRequests ==
    { r \in JobRequests : r.sweep = <<>> /\ Matched(r.pattern, <<"A">>)
                          /\ \A i \in DOMAIN r.nodes : ToUpper(r.nodes[i]) = <<"A">> }

IdleJob == [pc |-> "idle", command |-> <<>>, nodes |-> <<>>, pattern |-> <<>>,
            sweep |-> <<>>, save_output |-> FALSE,
            startKeys |-> {}, visited |-> {}, cur |-> <<>>, last_report |-> 0,
            ready_nodes |-> NoMap, valid_nodes |-> <<>>, invalid_nodes |-> <<>>,
            placeholder |-> <<>>, sequence |-> <<>>, id |-> 0, i |-> 0,
            err |-> "none", examined |-> NoMap]

InitJobVars ==
    /\ job = IdleJob
    /\ out = <<>>
    /\ clientUp = TRUE
    /\ store = <<>>
    /\ handlers = NoMap
    /\ job_on_nodes = NoMap
    /\ wg = 0
    /\ streams = NoMap

\* line 119 and line 259: the request arrives and GetValidNodes starts its Range
StartClusJobBegin(req) ==
    /\ job.pc = "idle"
    /\ enumCount < MaxEnum
    /\ enumCount' = enumCount + 1
    /\ job' = [IdleJob EXCEPT !.pc = "range", !.command = req.command,
                              !.nodes = req.nodes, !.pattern = req.pattern,
                              !.sweep = req.sweep, !.save_output = req.save_output,
                              !.startKeys = DOMAIN reportedTime]
    /\ UNCHANGED <<reportedTime, validateNumber, now, hb, val, hbCount, hbErr,
                   gn, epoch, okEpochs, poisoned, mismatched>>
    /\ UNCHANGED <<cancelVars, out, clientUp, store, handlers, job_on_nodes, wg, streams>>

\* lines 259-261: Range yields the next key with its value
GetValidNodesRange(k) ==
    /\ job.pc = "range"
    /\ k \in DOMAIN reportedTime \ job.visited
    /\ job' = [job EXCEPT !.pc = "check", !.cur = k,
                          !.last_report = reportedTime[k],
                          !.visited = job.visited \cup {k}]
    /\ UNCHANGED <<regVars, cancelVars, out, clientUp, store, handlers, job_on_nodes, wg, streams>>

\* variant of IsReadyNode: the test of line 262 written number <= 0
IsReadyNodeInProgress(ok, number, last_report) ==
    ok /\ number <= 0 /\ ~HeartbeatTimeout(last_report)

\* line 262: the test that admits a node to the ready pool, for the value
\* validateNumber.Load returned and the value Range yielded
IsReadyNode(ok, number, last_report) ==
    ok /\ number < 0 /\ ~HeartbeatTimeout(last_report)

\* lines 262-269: validateNumber.Load, the timeout test and the pattern
GetValidNodesCheck ==
    LET node == job.cur
        ok == node \in DOMAIN validateNumber
        number == IF ok THEN validateNumber[node] ELSE 0
        selected == IsReadyNode(ok, number, job.last_report)
                    /\ Matched(job.pattern, node)
    IN /\ job.pc = "check"
       /\ job' = IF selected
                 THEN [job EXCEPT
                         !.pc = "range",
                         !.ready_nodes = MapStore(MapStore(job.ready_nodes, node, node),
                                                  ParseHost(node), node),
                         !.valid_nodes = Append(job.valid_nodes, node),
                         !.examined = MapStore(job.examined, node,
                                        [last_report |-> job.last_report,
                                         present |-> node \in DOMAIN validateNumber,
                                         number |-> number,
                                         at |-> now,
                                         justified |-> EpochOf(node) \in OkEpochsOf(node),
                                         poisoned |-> node \in poisoned,
                                         mismatched |-> node \in mismatched])]
                 ELSE [job EXCEPT !.pc = "range"]
       /\ UNCHANGED <<regVars, cancelVars, out, clientUp, store, handlers, job_on_nodes, wg, streams>>

\* lines 272-287: the explicit names are looked up in the ready pool
RECURSIVE ResolveFrom(_, _, _, _, _)
ResolveFrom(nodes, i, ready, valid, invalid) ==
    IF i > Len(nodes) THEN [valid |-> valid, invalid |-> invalid]
    ELSE LET key == ToUpper(nodes[i])
         IN IF key \in DOMAIN ready
            THEN ResolveFrom(nodes, i + 1, ready,
                             IF \E j \in DOMAIN valid : valid[j] = ready[key]
                             THEN valid ELSE Append(valid, ready[key]),
                             invalid)
            ELSE ResolveFrom(nodes, i + 1, ready, valid, Append(invalid, nodes[i]))

\* what GetValidNodes returns once Range is over
GetValidNodesResult(nodes, ready, pool) ==
    IF Len(nodes) > 0 THEN ResolveFrom(nodes, 1, ready, <<>>, <<>>)
    ELSE [valid |-> pool, invalid |-> <<>>]

\* variant of RejectReason: the test of lines 126-129 is missing
RejectReasonNoInvalid(command, sweep, nodes, invalid_nodes) ==
    IF Len(nodes) = 0 THEN "No valid nodes to create job"
    ELSE IF ~Contains(command, parseSweep(sweep, Len(nodes)).placeholder)
    THEN "Sweep placeholder"
    ELSE "none"

\* lines 124-142: the error StartClusJob returns for the resolved nodes, if any
RejectReason(command, sweep, nodes, invalid_nodes) ==
    IF Len(invalid_nodes) > 0 THEN "Invalid nodes"
    ELSE IF Len(nodes) = 0 THEN "No valid nodes to create job"
    ELSE IF ~Contains(command, parseSweep(sweep, Len(nodes)).placeholder)
    THEN "Sweep placeholder"
    ELSE "none"

\* lines 272-142: GetValidNodes returns, the lists are sorted, the request
\* is rejected or the sweep is parsed
GetValidNodesReturn ==
    LET r == GetValidNodesResult(job.nodes, job.ready_nodes, job.valid_nodes)
        nodes == SortStrings(r.valid)
        invalid == SortStrings(r.invalid)
        reason == RejectReason(job.command, job.sweep, nodes, invalid)
        ps == parseSweep(job.sweep, Len(nodes))
    IN /\ job.pc = "range"
       /\ job.startKeys \subseteq job.visited
       /\ job' = IF reason = "Sweep placeholder"
                 THEN [job EXCEPT !.pc = "error", !.err = reason,
                                  !.valid_nodes = nodes, !.invalid_nodes = invalid,
                                  !.placeholder = ps.placeholder,
                                  !.sequence = ps.sequence]
                 ELSE IF reason # "none"
                 THEN [job EXCEPT !.pc = "error", !.err = reason,
                                  !.valid_nodes = nodes, !.invalid_nodes = invalid]
                 ELSE [job EXCEPT !.pc = "create",
                                  !.valid_nodes = nodes, !.invalid_nodes = invalid,
                                  !.placeholder = ps.placeholder,
                                  !.sequence = ps.sequence]
       /\ UNCHANGED <<regVars, cancelVars, out, clientUp, store, handlers, job_on_nodes, wg, streams>>

\* the replies of the client stream
HeaderReply(id, nodes) ==
    [kind |-> "header", job_id |-> id, nodes |-> nodes, node |-> <<>>,
     text |-> <<>>, exit_code |-> 0]
OutputReply(kind, node, text) ==
    [kind |-> kind, job_id |-> 0, nodes |-> <<>>, node |-> node,
     text |-> text, exit_code |-> 0]
TerminalReply(node, exit_code) ==
    [kind |-> "exit", job_id |-> 0, nodes |-> <<>>, node |-> node,
     text |-> <<>>, exit_code |-> exit_code]

\* out.Send(reply): the reply reaches the client while it is connected
Send(reply) == IF clientUp THEN Append(out, reply) ELSE out

\* the calls on the JobStore
StoreCall(op, id, from, to, failed) ==
    [op |-> op, id |-> id, from |-> from, to |-> to, failed |-> failed]

\* the ids CreateNewJob has issued
CreatedIds == { store[i].id : i \in { j \in DOMAIN store : store[j].op = "CreateNewJob" } }

\* lines 145-149: CreateNewJob succeeds with the next id, or fails
StartClusJobCreate(ok) ==
    /\ job.pc = "create"
    /\ IF ok
       THEN /\ store' = Append(store, StoreCall("CreateNewJob", Cardinality(CreatedIds) + 1,
                                                "", "Created", NoMap))
            /\ job' = [job EXCEPT !.pc = "header", !.id = Cardinality(CreatedIds) + 1]
       ELSE /\ store' = store
            /\ job' = [job EXCEPT !.pc = "error", !.err = "CreateNewJob failed"]
    /\ UNCHANGED <<regVars, cancelVars, out, clientUp, handlers, job_on_nodes, wg, streams>>

\* variant of StartClusJobHeader: the error of out.Send is not looked at
StartClusJobHeaderUnchecked ==
    /\ job.pc = "header"
    /\ out' = Send(HeaderReply(job.id, job.valid_nodes))
    /\ job' = [job EXCEPT !.pc = "dispatching"]
    /\ UNCHANGED <<regVars, cancelVars, clientUp, store, handlers, job_on_nodes, wg, streams>>

\* lines 150-153: the header reply
StartClusJobHeader ==
    /\ job.pc = "header"
    /\ out' = Send(HeaderReply(job.id, job.valid_nodes))
    /\ job' = IF clientUp THEN [job EXCEPT !.pc = "dispatching"]
              ELSE [job EXCEPT !.pc = "error", !.err = "Send failed"]
    /\ UNCHANGED <<regVars, cancelVars, clientUp, store, handlers, job_on_nodes, wg, streams>>

\* line 156: UpdateJobState(id, Created, Dispatching)
StartClusJobDispatching ==
    /\ job.pc = "dispatching"
    /\ store' = Append(store, StoreCall("UpdateJobState", job.id, "Created",
                                        "Dispatching", NoMap))
    /\ job' = [job EXCEPT !.pc = "spawn", !.i = 1]
    /\ UNCHANGED <<regVars, cancelVars, out, clientUp, handlers, job_on_nodes, wg, streams>>

\* lines 161-164: the command of the i-th node
NodeCommand(command, sweep, placeholder, sequence, i) ==
    IF Len(sweep) > 0 THEN ReplaceAll(command, placeholder, Itoa(sequence[i]))
    ELSE command

NewHandler(command, save_output) ==
    [pc |-> "start", command |-> command, save_output |-> save_output,
     exit_code |-> -1, f_out |-> "nil", f_err |-> "nil", deferFiles |-> FALSE,
     conn |-> "nil", msg |-> [stdout |-> <<>>, stderr |-> <<>>, exit_code |-> 0],
     failing_to_redirect |-> FALSE]

\* lines 159-166: wg.Add(1) and go StartJobOnNode for the i-th node
StartClusJobSpawn ==
    /\ job.pc = "spawn"
    /\ job.i <= Len(job.valid_nodes)
    /\ wg' = wg + 1
    /\ handlers' = MapStore(handlers, job.valid_nodes[job.i],
                            NewHandler(NodeCommand(job.command, job.sweep, job.placeholder,
                                                   job.sequence, job.i),
                                       job.save_output))
    /\ streams' = MapStore(streams, job.valid_nodes[job.i],
                           [delivered |-> 0, lastCode |-> -1, ended |-> "open"])
    /\ job' = [job EXCEPT !.i = job.i + 1]
    /\ UNCHANGED <<regVars, cancelVars, out, clientUp, store, job_on_nodes>>

\* line 167: UpdateJobState(id, Dispatching, Running), then wg.Wait()
StartClusJobRunning ==
    /\ job.pc = "spawn"
    /\ job.i > Len(job.valid_nodes)
    /\ store' = Append(store, StoreCall("UpdateJobState", job.id, "Dispatching",
                                        "Running", NoMap))
    /\ job' = [job EXCEPT !.pc = "wait"]
    /\ UNCHANGED <<regVars, cancelVars, out, clientUp, handlers, job_on_nodes, wg, streams>>

\* variant of FailedNodes: the test of line 174 written state != Finished
FailedNodesNotFinished(m) ==
    LET F == { n \in DOMAIN m : m[n].state # "Finished" }
    IN [n \in F |-> m[n].exitCode]

\* lines 171-179: the nodes whose recorded state is Failed, with their exit codes
FailedNodes(m) ==
    LET F == { n \in DOMAIN m : m[n].state = "Failed" }
    IN [n \in F |-> m[n].exitCode]

\* lines 168-185: wg.Wait() returns, the final state is written, nil is returned
StartClusJobFinish ==
    /\ job.pc = "wait"
    /\ wg = 0
    /\ store' = Append(store,
                  IF DOMAIN FailedNodes(job_on_nodes) # {}
                  THEN StoreCall("UpdateFailedJob", job.id, "", "Failed",
                                 FailedNodes(job_on_nodes))
                  ELSE StoreCall("UpdateFinishedJob", job.id, "", "Finished", NoMap))
    /\ job' = [job EXCEPT !.pc = "done"]
    /\ UNCHANGED <<regVars, cancelVars, out, clientUp, handlers, job_on_nodes, wg, streams>>

\* the client goes away while the call is in progress
ClientDisconnect ==
    /\ clientUp
    /\ job.pc \notin {"idle", "done", "error"}
    /\ clientUp' = FALSE
    /\ UNCHANGED <<regVars, cancelVars, job, out, store, handlers, job_on_nodes, wg, streams>>

\* ---------------------------------------------------------- StartJobOnNode
Messages ==
    { [stdout |-> <<"o">>, stderr |-> <<>>, exit_code |-> 0],
      [stdout |-> <<>>, stderr |-> <<"e">>, exit_code |-> 7],
      [stdout |-> <<"o">>, stderr |-> <<"e">>, exit_code |-> 0] }

JobOnNode(state, exitCode) == [state |-> state, exitCode |-> exitCode]

\* the deferred calls run when the handler returns: the files (line 315-316)
\* and the connection (line 327) are closed if their defer was reached
HandlerReturn(h) ==
    [h EXCEPT !.pc = "done",
              !.f_out = IF h.deferFiles THEN "closed" ELSE h.f_out,
              !.f_err = IF h.deferFiles THEN "closed" ELSE h.f_err,
              !.conn = IF h.conn = "open" THEN "closed" ELSE h.conn]

\* lines 303-318: the output files are created when output is stored, and
\* the node is recorded as Dispatching
HandlerStart(n, outOk, errOk) ==
    LET h == handlers[n]
    IN /\ n \in DOMAIN handlers
       /\ h.pc = "start"
       /\ ~h.save_output => outOk /\ errOk
       /\ ~outOk => errOk
       /\ IF h.save_output /\ ~(outOk /\ errOk)
          THEN /\ handlers' = [handlers EXCEPT ![n] =
                                  HandlerReturn([h EXCEPT !.f_out = IF outOk THEN "open" ELSE "nil"])]
               /\ wg' = wg - 1
               /\ job_on_nodes' = job_on_nodes
          ELSE /\ handlers' = [handlers EXCEPT ![n] =
                                  [h EXCEPT !.pc = "dial",
                                            !.f_out = IF h.save_output THEN "open" ELSE "nil",
                                            !.f_err = IF h.save_output THEN "open" ELSE "nil",
                                            !.deferFiles = h.save_output]]
               /\ wg' = wg
               /\ job_on_nodes' = MapStore(job_on_nodes, n, JobOnNode("Dispatching", 0))
       /\ UNCHANGED <<regVars, cancelVars, job, out, clientUp, store, streams>>

\* lines 321-330: the dial
HandlerDial(n, ok) ==
    LET h == handlers[n]
    IN /\ n \in DOMAIN handlers
       /\ h.pc = "dial"
       /\ IF ok
          THEN /\ handlers' = [handlers EXCEPT ![n] = [h EXCEPT !.pc = "startjob",
                                                                   !.conn = "open"]]
               /\ wg' = wg
          ELSE /\ handlers' = [handlers EXCEPT ![n] = HandlerReturn(h)]
               /\ wg' = wg - 1
       /\ UNCHANGED <<regVars, cancelVars, job, out, clientUp, store, job_on_nodes, streams>>

\* lines 333-340: StartJob on the worker
HandlerStartJob(n, ok) ==
    LET h == handlers[n]
    IN /\ n \in DOMAIN handlers
       /\ h.pc = "startjob"
       /\ IF ok
          THEN /\ handlers' = [handlers EXCEPT ![n] = [h EXCEPT !.pc = "recv"]]
               /\ job_on_nodes' = MapStore(job_on_nodes, n, JobOnNode("Running", 0))
               /\ wg' = wg
          ELSE /\ handlers' = [handlers EXCEPT ![n] = HandlerReturn(h)]
               /\ job_on_nodes' = MapStore(job_on_nodes, n, JobOnNode("Failed", 0))
               /\ wg' = wg - 1
       /\ UNCHANGED <<regVars, cancelVars, job, out, clientUp, store, streams>>

\* variant of AfterStdout: line 389 moved into the stderr branch
AfterStdoutKeepCode(h) ==
    IF h.msg.stderr # <<>> THEN [h EXCEPT !.pc = "stderr"]
    ELSE [h EXCEPT !.pc = "recv"]

\* where the handler goes after the stdout part of a message (line 374)
AfterStdout(h) ==
    IF h.msg.stderr # <<>> THEN [h EXCEPT !.pc = "stderr"]
    ELSE [h EXCEPT !.pc = "recv", !.exit_code = h.msg.exit_code]

\* where the handler goes with a message just received (lines 358-389)
AfterRecv(h) ==
    IF h.msg.stdout # <<>> THEN [h EXCEPT !.pc = "stdout"] ELSE AfterStdout(h)

\* lines 346, 357-358: stream.Recv() delivers a message
HandlerRecvMessage(n, m) ==
    LET h == handlers[n]
    IN /\ n \in DOMAIN handlers
       /\ h.pc = "recv"
       /\ streams[n].delivered < MaxMsgs
       /\ streams' = [streams EXCEPT ![n].delivered = @ + 1,
                                     ![n].lastCode = m.exit_code]
       /\ handlers' = [handlers EXCEPT ![n] = AfterRecv([h EXCEPT !.msg = m])]
       /\ UNCHANGED <<regVars, cancelVars, job, out, clientUp, store, job_on_nodes, wg>>

\* lines 354-356: stream.Recv() fails with an error other than EOF
HandlerRecvError(n) ==
    LET h == handlers[n]
    IN /\ n \in DOMAIN handlers
       /\ h.pc = "recv"
       /\ streams' = [streams EXCEPT ![n].ended = "error"]
       /\ handlers' = [handlers EXCEPT ![n] = HandlerReturn(h)]
       /\ wg' = wg - 1
       /\ UNCHANGED <<regVars, cancelVars, job, out, clientUp, store, job_on_nodes>>

\* variant of HandlerStdout: the handler returns when out.Send fails (line 365)
HandlerStdoutAbort(n) ==
    LET h == handlers[n]
    IN /\ n \in DOMAIN handlers
       /\ h.pc = "stdout"
       /\ out' = Send(OutputReply("stdout", n, h.msg.stdout))
       /\ handlers' = [handlers EXCEPT ![n] =
                          IF clientUp THEN AfterStdout([h EXCEPT !.failing_to_redirect = FALSE])
                          ELSE HandlerReturn([h EXCEPT !.failing_to_redirect = TRUE])]
       /\ wg' = IF clientUp THEN wg ELSE wg - 1
       /\ UNCHANGED <<regVars, cancelVars, job, clientUp, store, job_on_nodes, streams>>

\* lines 359-373: stdout is saved and forwarded
HandlerStdout(n) ==
    LET h == handlers[n]
    IN /\ n \in DOMAIN handlers
       /\ h.pc = "stdout"
       /\ out' = Send(OutputReply("stdout", n, h.msg.stdout))
       /\ handlers' = [handlers EXCEPT ![n] =
                          AfterStdout([h EXCEPT !.failing_to_redirect = ~clientUp])]
       /\ UNCHANGED <<regVars, cancelVars, job, clientUp, store, job_on_nodes, wg, streams>>

\* lines 374-389: stderr is saved and forwarded, the exit code remembered
HandlerStderr(n) ==
    LET h == handlers[n]
    IN /\ n \in DOMAIN handlers
       /\ h.pc = "stderr"
       /\ out' = Send(OutputReply("stderr", n, h.msg.stderr))
       /\ handlers' = [handlers EXCEPT ![n] =
                          [h EXCEPT !.pc = "recv", !.exit_code = h.msg.exit_code,
                                    !.failing_to_redirect = ~clientUp]]
       /\ UNCHANGED <<regVars, cancelVars, job, clientUp, store, job_on_nodes, wg, streams>>

\* lines 347-353: stream.Recv() returns EOF and the terminal reply is sent
HandlerRecvEOF(n) ==
    LET h == handlers[n]
    IN /\ n \in DOMAIN handlers
       /\ h.pc = "recv"
       /\ streams' = [streams EXCEPT ![n].ended = "EOF"]
       /\ out' = Send(TerminalReply(n, h.exit_code))
       /\ handlers' = [handlers EXCEPT ![n].pc = "final"]
       /\ UNCHANGED <<regVars, cancelVars, job, clientUp, store, job_on_nodes, wg>>

\* the state lines 392-396 record for the last exit code
FinalJobOnNode(exit_code) ==
    IF exit_code = 0 THEN JobOnNode("Finished", 0) ELSE JobOnNode("Failed", exit_code)

\* lines 392-397: the final state of the node is recorded, the handler returns
HandlerFinal(n) ==
    LET h == handlers[n]
    IN /\ n \in DOMAIN handlers
       /\ h.pc = "final"
       /\ job_on_nodes' = MapStore(job_on_nodes, n, FinalJobOnNode(h.exit_code))
       /\ handlers' = [handlers EXCEPT ![n] = HandlerReturn(h)]
       /\ wg' = wg - 1
       /\ UNCHANGED <<regVars, cancelVars, job, out, clientUp, store, streams>>

\* --------------------------------------------------------- CancelClusJobs
NameA == <<"A">>
NameB == <<"B", "(", "H", ":", "6", ")">>
Names == {NameA, NameB}

\* the node lists a job may have: distinct display names, sorted (line 124)
NodeLists == { <<>>, <<NameA>>, <<NameB>>, <<NameA, NameB>> }

\* what JobStore.CancelJobs may return as to_cancel: job id -> nodes
CancelMaps ==
    { m \in UNION { [ids -> NodeLists] : ids \in SUBSET (1..MaxJobId) } : TRUE }

InitCancelVars ==
    /\ ccall = [pc |-> "idle", err |-> FALSE]
    /\ cjob = NoMap
    /\ cnode = NoMap
    /\ cstore = <<>>
    /\ coutcome = NoMap

NewCancelJob(nodes) == [pc |-> "spawn", nodes |-> nodes, i |-> 1, wg |-> 0, result |-> NoMap]

\* lines 190-200: CancelJobs answers; one CancelJob goroutine is started for
\* every id of to_cancel, or the error is returned
CancelClusJobs(ok, to_cancel) ==
    /\ ccall.pc = "idle"
    /\ ~ok => to_cancel = NoMap
    /\ ccall' = [pc |-> "done", err |-> ~ok]
    /\ cjob' = [id \in DOMAIN to_cancel |-> NewCancelJob(to_cancel[id])]
    /\ UNCHANGED <<regVars, jobVars, cnode, cstore, coutcome>>

\* lines 402-406: wg.Add(1), result.Store(node, false), go CancelJobOnNode
CancelJobSpawn(id) ==
    LET c == cjob[id]
    IN /\ id \in DOMAIN cjob
       /\ c.pc = "spawn"
       /\ c.i <= Len(c.nodes)
       /\ cjob' = [cjob EXCEPT ![id] = [c EXCEPT !.i = c.i + 1, !.wg = c.wg + 1,
                                                 !.result = MapStore(c.result, c.nodes[c.i], FALSE)]]
       /\ cnode' = MapStore(cnode, <<id, c.nodes[c.i]>>, "dial")
       /\ UNCHANGED <<regVars, jobVars, ccall, cstore, coutcome>>

\* lines 408-414: the nodes whose result is still false
CancelFailedNodes(result) == { n \in DOMAIN result : ~result[n] }

\* variant of CancelWaitOver: wg.Wait() of line 407 is missing
CancelWaitOverSpawned(c) == c.i > Len(c.nodes)

\* whether wg.Wait() of line 407 returns
CancelWaitOver(c) == c.i > Len(c.nodes) /\ c.wg = 0

\* lines 407-415: wg.Wait() returns and UpdateCancelledJob is called
CancelJobFinish(id) ==
    LET c == cjob[id]
    IN /\ id \in DOMAIN cjob
       /\ c.pc = "spawn"
       /\ CancelWaitOver(c)
       /\ cstore' = Append(cstore, [id |-> id, failed |-> CancelFailedNodes(c.result)])
       /\ cjob' = [cjob EXCEPT ![id].pc = "done"]
       /\ UNCHANGED <<regVars, jobVars, ccall, cnode, coutcome>>

\* lines 422-427: the dial of CancelJobOnNode
CancelJobOnNodeDial(id, n, ok) ==
    /\ <<id, n>> \in DOMAIN cnode
    /\ cnode[<<id, n>>] = "dial"
    /\ IF ok
       THEN /\ cnode' = [cnode EXCEPT ![<<id, n>>] = "rpc"]
            /\ UNCHANGED <<cjob, coutcome>>
       ELSE /\ cnode' = [cnode EXCEPT ![<<id, n>>] = "done"]
            /\ cjob' = [cjob EXCEPT ![id].wg = @ - 1]
            /\ coutcome' = MapStore(coutcome, <<id, n>>, "dial failed")
    /\ UNCHANGED <<regVars, jobVars, ccall, cstore>>

\* lines 434-439: the CancelJob RPC; result.Store(node, true) on success
CancelJobOnNodeRpc(id, n, ok) ==
    /\ <<id, n>> \in DOMAIN cnode
    /\ cnode[<<id, n>>] = "rpc"
    /\ cnode' = [cnode EXCEPT ![<<id, n>>] = "done"]
    /\ cjob' = [cjob EXCEPT ![id].wg = @ - 1,
                            ![id].result = IF ok THEN MapStore(@, n, TRUE) ELSE @]
    /\ coutcome' = MapStore(coutcome, <<id, n>>, IF ok THEN "canceled" ELSE "rpc failed")
    /\ UNCHANGED <<regVars, jobVars, ccall, cstore>>

\* ------------------------------------------------------------ registry spec
Init == InitRegistry /\ InitJobVars /\ InitCancelVars

NextRegistry ==
    \/ Tick
    \/ \E req \in HeartbeatRequests : HeartbeatBegin(req)
    \/ \E i \in Slots : HeartbeatDelete(i)
    \/ \E i \in Slots : HeartbeatStore(i)
    \/ \E i \in Slots : ValidateStart(i)
    \/ \E i \in Slots : ValidateMark(i)
    \/ \E i \in Slots, r \in ValidateResults : ValidateCall(i, r)
    \/ \E i \in Slots : ValidateWrite(i)
    \/ \E r \in GetNodesRequests : GetNodesBegin(r.pattern, r.state)
    \/ \E k \in DOMAIN reportedTime : GetNodesRange(k)
    \/ GetNodesCheck
    \/ GetNodesLoad
    \/ GetNodesReturn
    \/ \E req \in RegistryJobRequests : StartClusJobBegin(req)
    \/ \E k \in DOMAIN reportedTime : GetValidNodesRange(k)
    \/ GetValidNodesCheck
    \/ GetValidNodesReturn

Next == NextRegistry

vars == <<regVars, jobVars, cancelVars>>

Spec == Init /\ [][Next]_vars


\* --------------------------------------------------------- dispatcher spec
\* registries left by earlier heartbeats and validations, at time
\* HeartbeatTimeoutSecond + 1: every node is unknown, Ready, Lost after
\* having been Ready, or alive with validation number 10
NodeStatuses == [Names -> {"unknown", "ready", "lost", "mismatch"}]

RegistryOf(st) ==
    LET known == { n \in Names : st[n] # "unknown" }
    IN /\ reportedTime = [n \in known |-> IF st[n] = "lost" THEN 0
                                         ELSE HeartbeatTimeoutSecond + 1]
       /\ validateNumber = [n \in known |-> IF st[n] = "mismatch" THEN 10 ELSE -1]
       /\ now = HeartbeatTimeoutSecond + 1
       /\ hb = [i \in Slots |-> IdleHB]
       /\ val = [i \in Slots |-> IdleVal]
       /\ hbCount = Cardinality(known)
       /\ hbErr = NoError
       /\ gn = IdleGN
       /\ enumCount = 0
       /\ epoch = [n \in known |-> 1]
       /\ okEpochs = [n \in known |-> IF st[n] = "mismatch" THEN {} ELSE {1}]
       /\ poisoned = { n \in known : st[n] = "mismatch" }
       /\ mismatched = { n \in known : st[n] = "mismatch" }

InitJob == (\E st \in NodeStatuses : RegistryOf(st)) /\ InitJobVars /\ InitCancelVars

NextJob ==
    \/ \E req \in JobRequests : StartClusJobBegin(req)
    \/ \E k \in DOMAIN reportedTime : GetValidNodesRange(k)
    \/ GetValidNodesCheck
    \/ GetValidNodesReturn
    \/ \E ok \in BOOLEAN : StartClusJobCreate(ok)
    \/ StartClusJobHeader
    \/ StartClusJobDispatching
    \/ StartClusJobSpawn
    \/ StartClusJobRunning
    \/ StartClusJobFinish
    \/ ClientDisconnect
    \/ \E n \in Names, outOk \in BOOLEAN, errOk \in BOOLEAN : HandlerStart(n, outOk, errOk)
    \/ \E n \in Names, ok \in BOOLEAN : HandlerDial(n, ok)
    \/ \E n \in Names, ok \in BOOLEAN : HandlerStartJob(n, ok)
    \/ \E n \in Names, m \in Messages : HandlerRecvMessage(n, m)
    \/ \E n \in Names : HandlerRecvError(n)
    \/ \E n \in Names : HandlerStdout(n)
    \/ \E n \in Names : HandlerStderr(n)
    \/ \E n \in Names : HandlerRecvEOF(n)
    \/ \E n \in Names : HandlerFinal(n)

SpecJob == InitJob /\ [][NextJob]_vars

\* ------------------------------------------------------- cancellation spec
NextCancel ==
    \/ \E ok \in BOOLEAN, m \in CancelMaps : CancelClusJobs(ok, m)
    \/ \E id \in 1..MaxJobId : CancelJobSpawn(id)
    \/ \E id \in 1..MaxJobId : CancelJobFinish(id)
    \/ \E id \in 1..MaxJobId, n \in Names, ok \in BOOLEAN : CancelJobOnNodeDial(id, n, ok)
    \/ \E id \in 1..MaxJobId, n \in Names, ok \in BOOLEAN : CancelJobOnNodeRpc(id, n, ok)

SpecCancel == Init /\ [][NextCancel]_vars

\* ------------------------------------------------------- reconnection spec
\* the clock may go this far while the reconnected node is watched
LiveTime == MaxTime + 1

\* the state GetNodes derives for a node from the two maps, lines 77-84
NodeStateOf(d) ==
    IF HeartbeatTimeout(reportedTime[d]) THEN "Lost" ELSE ReportedState(d)

\* what the registry may hold for a node that is Lost: its last validation
\* succeeded, failed once or met a mismatch, or a validator of an earlier
\* heartbeat is still running (at the dial) or holds an answer not yet stored
LostStatuses ==
    { [number |-> n, pc |-> "idle", result |-> "none", held |-> 0] : n \in {-1, 1, 10} }
    \cup { [number |-> 0, pc |-> "dial", result |-> "none", held |-> h] : h \in {0, 1} }
    \cup { [number |-> 0, pc |-> "write", result |-> r, held |-> h] :
              r \in ValidateResults, h \in {0, 1} }

LostRegistry(st) ==
    /\ reportedTime = [n \in {NameA} |-> 0]
    /\ validateNumber = [n \in {NameA} |-> st.number]
    /\ now = HeartbeatTimeoutSecond + 1
    /\ hb = [i \in Slots |-> IdleHB]
    /\ val = [i \in Slots |->
                IF i = MaxSlots /\ st.pc # "idle"
                THEN [pc |-> st.pc, display_name |-> NameA, nodename |-> <<"A">>,
                      host |-> <<"a", ":", "5">>, number |-> st.held,
                      result |-> st.result, epoch |-> 1, kind |-> "first"]
                ELSE IdleVal]
    /\ hbCount = 1
    /\ hbErr = NoError
    /\ gn = IdleGN
    /\ enumCount = 0
    /\ epoch = [n \in {NameA} |-> 1]
    /\ okEpochs = [n \in {NameA} |-> IF st.number = -1 THEN {1} ELSE {}]
    /\ poisoned = IF st.number = 10 THEN {NameA} ELSE {}
    /\ mismatched = IF st.number = 10 THEN {NameA} ELSE {}

InitLive == (\E st \in LostStatuses : LostRegistry(st)) /\ InitJobVars /\ InitCancelVars

\* the heartbeats of the node, which it sends for ever
LiveRequests == { r \in HeartbeatRequests :
                    /\ ~ContainsAny(r.nodename, {"(", ")"})
                    /\ ~ParseHostAddress(r.host).err }

HeartbeatAgain(req) ==
    /\ HeartbeatArrive(req)
    /\ UNCHANGED <<nonRegVars, reportedTime, validateNumber, now, val, hbCount, gn,
                   enumCount, epoch, okEpochs, poisoned, mismatched>>

\* time passes, but never so much that a node that has reported is Lost
TickAlive ==
    /\ now < LiveTime
    /\ \A d \in DOMAIN reportedTime : now + 1 - reportedTime[d] <= HeartbeatTimeoutSecond
    /\ now' = now + 1
    /\ UNCHANGED <<nonRegVars, reportedTime, validateNumber, hb, val, hbCount, hbErr,
                   gn, enumCount, epoch, okEpochs, poisoned, mismatched>>

NextLive ==
    \/ TickAlive
    \/ \E req \in LiveRequests : HeartbeatAgain(req)
    \/ \E i \in Slots : HeartbeatDelete(i)
    \/ \E i \in Slots : HeartbeatStore(i)
    \/ \E i \in Slots : ValidateStart(i)
    \/ \E i \in Slots : ValidateMark(i)
    \/ \E i \in Slots : ValidateCall(i, "match")
    \/ \E i \in Slots : ValidateWrite(i)

\* every handler and every validator goes on running, and the node goes on
\* sending heartbeats
FairLive ==
    /\ WF_vars(\E req \in LiveRequests : HeartbeatAgain(req))
    /\ \A i \in Slots :
          /\ WF_vars(HeartbeatDelete(i))
          /\ WF_vars(HeartbeatStore(i))
          /\ WF_vars(ValidateStart(i))
          /\ WF_vars(ValidateMark(i))
          /\ WF_vars(ValidateCall(i, "match"))
          /\ WF_vars(ValidateWrite(i))

SpecLive == InitLive /\ [][NextLive]_vars /\ FairLive

\* -------------------------------------------------------------- retry spec
\* lines 228-242 where the worker may go on failing: as ValidateCall, with
\* the failure count going up to MaxRetry
ValidateAnswer(i, result) ==
    /\ val[i].pc = "dial"
    /\ result \in {"dialerr", "err"} => FailureNumber(val[i].number) <= MaxRetry
    /\ val' = [val EXCEPT ![i].pc = "write", ![i].result = result]
    /\ UNCHANGED <<nonRegVars, reportedTime, validateNumber, now, hb, hbCount, hbErr,
                   gn, enumCount, epoch, okEpochs, poisoned, mismatched>>

\* a node goes on sending heartbeats within the timeout, and every heartbeat
\* starts a validator
NextRetry ==
    \/ \E req \in LiveRequests : HeartbeatAgain(req)
    \/ \E i \in Slots : HeartbeatStore(i)
    \/ \E i \in Slots : ValidateStart(i)
    \/ \E i \in Slots : ValidateMark(i)
    \/ \E i \in Slots, result \in ValidateResults : ValidateAnswer(i, result)
    \/ \E i \in Slots : ValidateWrite(i)

SpecRetry == Init /\ [][NextRetry]_vars

\* -------------------------------------------------------------- sweep spec
\* StartClusJob at line 123, GetValidNodes having found count Ready nodes,
\* for the sweeps below; its next step calls parseSweep (line 137)
SweepValues == {-3, -1, 0, 1, 3, 5}

\* the sweeps of the grammar placeholder{[-]begin[-[-]end][,[-]step]}, by
\* their parts
WellFormedSweeps ==
    { w \in [placeholder : { <<"x">>, <<"{", "i", "}">> }, begin : SweepValues,
             hasEnd : BOOLEAN, end : SweepValues,
             hasStep : BOOLEAN, step : {-2, -1, 1, 2}] :
        /\ ~w.hasEnd => w.end = 0
        /\ ~w.hasStep => w.step = 1 }

RangeText(w) ==
    Itoa(w.begin) \o (IF w.hasEnd THEN <<"-">> \o Itoa(w.end) ELSE <<>>)

\* the text of a sweep given by its parts
SweepText(w) ==
    w.placeholder \o <<"{">> \o RangeText(w)
        \o (IF w.hasStep THEN <<",">> \o Itoa(w.step) ELSE <<>>) \o <<"}">>

\* the text of a sweep, spoilt in one way
SpoiltText(w, kind) ==
    LET step == IF w.hasStep THEN <<",">> \o Itoa(w.step) ELSE <<>>
        wrap(range, st) == w.placeholder \o <<"{">> \o range \o st \o <<"}">>
    IN CASE kind = "no closing brace" ->
                w.placeholder \o <<"{">> \o RangeText(w) \o step
         [] kind = "no opening brace" -> <<"x">> \o RangeText(w) \o step \o <<"}">>
         [] kind = "no placeholder" -> <<"{">> \o RangeText(w) \o step \o <<"}">>
         [] kind = "letter in begin" -> wrap(<<"b">> \o RangeText(w), step)
         [] kind = "letter in end" -> wrap(RangeText(w) \o <<"-", "e">>, step)
         [] kind = "letter in step" -> wrap(RangeText(w), <<",", "s">>)
         [] kind = "step 0" -> wrap(RangeText(w), <<",", "0">>)
         [] kind = "three fields" -> wrap(RangeText(w), <<",", "1", ",", "1">>)
         [] kind = "five pieces" -> wrap(<<"1", "-", "2", "-", "3", "-", "4", "-", "5">>, step)
         [] kind = "four pieces" -> wrap(<<"1", "-", "2", "-", "3", "-", "4">>, step)
         [] kind = "three pieces" -> wrap(<<"1", "-", "2", "-", "3">>, step)

\* the spoilt sweeps of the model; a letter after the end spoils a sweep
\* only where the grammar has an end there
SpoiltSweeps ==
    { SpoiltText(w, kind) :
        w \in { v \in WellFormedSweeps : v.begin \in {-1, 1, 5} /\ v.end \in {-1, 0, 3}
                                         /\ v.step \in {-1, 1, 2} },
        kind \in { "no closing brace", "no opening brace", "no placeholder",
                   "letter in begin", "letter in end", "letter in step", "step 0",
                   "three fields", "five pieces", "four pieces", "three pieces" } }

\* the registry and the StartClusJob call at the end of the Range of
\* GetValidNodes over count Ready nodes
SweepCall(sweep, count) ==
    LET nodes == [i \in 1..count |-> <<Upper[i]>>]
        names == { nodes[i] : i \in 1..count }
    IN /\ reportedTime = [n \in names |-> 0]
       /\ validateNumber = [n \in names |-> -1]
       /\ now = 0
       /\ hb = [i \in Slots |-> IdleHB]
       /\ val = [i \in Slots |-> IdleVal]
       /\ hbCount = count
       /\ hbErr = NoError
       /\ gn = IdleGN
       /\ enumCount = 1
       /\ epoch = [n \in names |-> 1]
       /\ okEpochs = [n \in names |-> {1}]
       /\ poisoned = {}
       /\ mismatched = {}
       /\ job = [IdleJob EXCEPT
                    !.pc = "range",
                    !.command = <<"e", "{", "i", "}", "x">>,
                    !.sweep = sweep,
                    !.startKeys = names,
                    !.visited = names,
                    !.valid_nodes = nodes,
                    !.ready_nodes = [k \in names \cup { ParseHost(n) : n \in names } |->
                                        IF k \in names THEN k
                                        ELSE CHOOSE n \in names : ParseHost(n) = k],
                    !.examined = [n \in names |->
                                    [last_report |-> 0, present |-> TRUE, number |-> -1,
                                     at |-> 0, justified |-> TRUE, poisoned |-> FALSE,
                                     mismatched |-> FALSE]]]
       /\ out = <<>>
       /\ clientUp = TRUE
       /\ store = <<>>
       /\ handlers = NoMap
       /\ job_on_nodes = NoMap
       /\ wg = 0
       /\ streams = NoMap

InitSweep ==
    /\ \E sweep \in { SweepText(w) : w \in WellFormedSweeps } \cup SpoiltSweeps,
          count \in {1, 2, 3, MaxCount} : SweepCall(sweep, count)
    /\ InitCancelVars

NextSweep == GetValidNodesReturn

SpecSweep == InitSweep /\ [][NextSweep]_vars

\* ------------------------------------------------------------------ claims
\* C1: GetNodes reports a node Ready only if a validation attempt triggered by
\* a heartbeat at or after the node's most recent (re)connection has succeeded;
\* the outcome of an attempt started before it never makes the node Ready.
C1_ReadyOnlyAfterFreshValidation ==
    \A i \in DOMAIN gn.nodes :
        gn.nodes[i].state = "Ready" => gn.nodes[i].justified

FailedHandlers ==
    { n \in DOMAIN handlers : handlers[n].pc = "done" /\ streams[n].ended # "EOF" }

TerminalReplies(n) == { i \in DOMAIN out : out[i].kind = "exit" /\ out[i].node = n }

\* C3: once the header is sent, the failure of a node never makes
\* StartClusJob return an error, the node gets no terminal reply, and the
\* final state written to the JobStore is Failed.
C3_NodeFailureMakesJobFailed ==
    FailedHandlers # {} =>
        /\ job.pc # "error"
        /\ \A n \in FailedHandlers : TerminalReplies(n) = {}
        /\ job.pc = "done" => store[Len(store)].op = "UpdateFailedJob"

Headers == { i \in DOMAIN out : out[i].kind = "header" }

\* C4: an accepted job has exactly one header reply {job_id, nodes}, and it
\* comes before every output reply and every terminal reply of the job.
C4_OneHeaderFirst ==
    /\ Cardinality(Headers) <= 1
    /\ out # <<>> => out[1] = HeaderReply(job.id, job.valid_nodes)
    /\ job.pc \in {"dispatching", "spawn", "wait", "done"} => Headers = {1}
    /\ handlers # NoMap => Headers = {1}

\* a finished job of two nodes whose replies both reached the client
C4_TwoNodesReplied ==
    /\ job.pc = "done"
    /\ Headers = {1}
    /\ \A n \in Names : \E i \in DOMAIN out : out[i].kind # "header" /\ out[i].node = n

\* C5: a node gets at most one terminal reply, only when its worker stream
\* ended with EOF, carrying the exit code of the last message received (-1 when
\* there was none), and after every output reply of the node.
C5_TerminalReply ==
    \A i \in DOMAIN out :
        out[i].kind = "exit" =>
            /\ TerminalReplies(out[i].node) = {i}
            /\ streams[out[i].node].ended = "EOF"
            /\ out[i].exit_code = streams[out[i].node].lastCode
            /\ \A j \in DOMAIN out : out[j].node = out[i].node => j <= i

\* a terminal reply that follows the output of two messages of its node
C5_TerminalAfterOutputs ==
    \E i \in DOMAIN out :
        /\ out[i].kind = "exit"
        /\ streams[out[i].node].delivered = MaxMsgs
        /\ out[i].exit_code # 0
        /\ \E j \in DOMAIN out : j < i /\ out[j].kind = "stdout" /\ out[j].node = out[i].node

Rejections == { "Invalid nodes", "No valid nodes to create job", "Sweep placeholder",
                "CreateNewJob failed" }

ExplicitNodesReady ==
    \A i \in DOMAIN job.nodes : ToUpper(job.nodes[i]) \in DOMAIN job.ready_nodes

\* C6: a request is rejected exactly when an explicit node is not in the ready
\* pool, the resolved set is empty, the placeholder is not in the command or
\* CreateNewJob fails; a rejected request has no header reply, no handler and
\* no state update, and unless it is CreateNewJob that failed, no job was
\* created in the JobStore.
C6_RejectionHasNoEffect ==
    /\ (job.pc = "error" /\ job.err \in Rejections) =>
          /\ out = <<>>
          /\ handlers = NoMap /\ job_on_nodes = NoMap /\ wg = 0
          /\ \A k \in DOMAIN store : store[k].op = "CreateNewJob"
          /\ job.err # "CreateNewJob failed" => store = <<>>
    /\ (job.pc = "error" /\ job.err = "Invalid nodes") => ~ExplicitNodesReady
    /\ (job.pc = "error" /\ job.err = "No valid nodes to create job") =>
          job.valid_nodes = <<>>
    /\ (job.pc = "error" /\ job.err = "Sweep placeholder") =>
          ~Contains(job.command, parseSweep(job.sweep, Len(job.valid_nodes)).placeholder)
    /\ job.pc \in {"create", "header", "dispatching", "spawn", "wait", "done"} =>
          /\ ExplicitNodesReady
          /\ job.valid_nodes # <<>>
          /\ Contains(job.command, job.placeholder)
    /\ (store # <<>> \/ out # <<>> \/ handlers # NoMap) =>
          (job.pc # "error" \/ job.err = "Send failed")

\* a request rejected for a node that is not ready, while another one is
C6_RejectedInvalidNode ==
    /\ job.pc = "error"
    /\ job.err = "Invalid nodes"
    /\ job.ready_nodes # NoMap
    /\ job.invalid_nodes # <<>>

\* C7: every node of the target list had, when GetValidNodes examined it, a
\* last_report within the timeout and validation number -1, and GetNodes
\* reports Ready only a node for which it loaded -1, whatever heartbeats and
\* validators do meanwhile.
C7_SelectedWereValidated ==
    /\ \A k \in DOMAIN job.valid_nodes :
          /\ job.valid_nodes[k] \in DOMAIN job.examined
          /\ job.examined[job.valid_nodes[k]].present
          /\ job.examined[job.valid_nodes[k]].number = -1
          /\ job.examined[job.valid_nodes[k]].at
                - job.examined[job.valid_nodes[k]].last_report <= HeartbeatTimeoutSecond
    /\ \A i \in DOMAIN gn.nodes : gn.nodes[i].state = "Ready" => gn.nodes[i].validated

\* a target list whose node has since been cleared by a reconnection
C7_SelectedThenCleared ==
    /\ job.pc = "create"
    /\ job.valid_nodes # <<>>
    /\ \E k \in DOMAIN job.valid_nodes :
          /\ job.valid_nodes[k] \notin DOMAIN validateNumber
          /\ EpochOf(job.valid_nodes[k]) >= 2

\* a heartbeat handler that found its node Lost and has cleared it
Reconnecting == \E i \in Slots : hb[i].pc = "store" /\ hb[i].kind = "reconnect"

ValidatorStep(i) == val[i].pc # "idle" /\ val'[i] # val[i]

\* C9 (as stated): a heartbeat received within the timeout of the previous
\* one changes only last_report: neither its handler nor the validator it
\* starts changes the validation number of the node.
C9_RepeatedHeartbeatChangesNothing ==
    [][\A i \in Slots :
          /\ (hb[i].kind = "repeat" /\ hb[i].pc # "idle" /\ hb'[i] # hb[i]) =>
                validateNumber' = validateNumber
          /\ (val[i].kind = "repeat" /\ ValidatorStep(i)) =>
                validateNumber' = validateNumber]_vars

\* C9: the handler of a heartbeat received within the timeout of the previous
\* one changes only last_report, and the validator it starts changes nothing
\* and returns when it finds the validation number 0 or -1.
C9_RepeatedHeartbeatKeepsSettled ==
    [][\A i \in Slots :
          /\ (hb[i].kind = "repeat" /\ hb[i].pc # "idle" /\ hb'[i] # hb[i]) =>
                /\ validateNumber' = validateNumber
                /\ reportedTime' = MapStore(reportedTime, hb[i].display_name, hb[i].t)
          /\ (/\ val[i].kind = "repeat"
              /\ val[i].pc = "start"
              /\ ValidatorStep(i)
              /\ val[i].display_name \in DOMAIN validateNumber
              /\ validateNumber[val[i].display_name] \in {0, -1}) =>
                /\ validateNumber' = validateNumber
                /\ val'[i] = IdleVal]_vars

\* the validator of a repeated heartbeat is about to find its node validated
C9_RepeatOnValidated ==
    \E i \in Slots :
        /\ val[i].kind = "repeat"
        /\ val[i].pc = "start"
        /\ val[i].display_name \in DOMAIN validateNumber
        /\ validateNumber[val[i].display_name] = -1

\* C10: UpdateCancelledJob is called once for a job id, after the attempt on
\* every node of the job has ended, with exactly the nodes whose dial or
\* CancelJob call did not succeed.
C10_CancelledOnceAfterAll ==
    /\ \A k \in DOMAIN cstore :
          /\ \A l \in DOMAIN cstore : cstore[l].id = cstore[k].id => l = k
          /\ cstore[k].id \in DOMAIN cjob
          /\ \A j \in DOMAIN cjob[cstore[k].id].nodes :
                <<cstore[k].id, cjob[cstore[k].id].nodes[j]>> \in DOMAIN coutcome
          /\ cstore[k].failed =
                { n \in Names :
                    /\ <<cstore[k].id, n>> \in DOMAIN coutcome
                    /\ coutcome[<<cstore[k].id, n>>] # "canceled" }
    /\ \A id \in DOMAIN cjob :
          cjob[id].pc = "done" => \E k \in DOMAIN cstore : cstore[k].id = id

\* two jobs cancelled, one of them with a node that failed and one that did not
C10_PartlyCancelled ==
    /\ Len(cstore) = MaxJobId
    /\ \E k \in DOMAIN cstore :
          /\ cstore[k].failed # {}
          /\ \E n \in Names : /\ <<cstore[k].id, n>> \in DOMAIN coutcome
                              /\ coutcome[<<cstore[k].id, n>>] = "canceled"

\* --- C11
\* StartClusJob has called parseSweep (line 137)
SweepParsed == job.pc \in {"create", "error"} /\ job.err \in {"none", "Sweep placeholder"}

\* C11: for every well-formed sweep and every node count N parseSweep returns
\* the text before the last "{" as the placeholder and exactly N terms
\* begin, begin+step, ..., a term strictly beyond the end being replaced by
\* begin: x{1-3} gives 1,2,3,1,2,3,... and x{5--1} gives 5,4,3,2,1,0,-1,5,...
C11_SweepSequence ==
    /\ \A w \in WellFormedSweeps :
          LET \* the step given, else 1, -1 or 0 as begin is below, above or at
              \* the end (1 where no end is given)
              step == IF w.hasStep THEN w.step
                      ELSE IF ~w.hasEnd \/ w.begin < w.end THEN 1
                      ELSE IF w.begin > w.end THEN -1 ELSE 0
              abs(n) == IF n < 0 THEN 0 - n ELSE n
              \* the number of steps from begin that do not go beyond the end
              fit == IF (w.end - w.begin) * step < 0 THEN 0
                     ELSE abs(w.end - w.begin) \div abs(step)
              \* the terms repeat with period fit + 1
              term(i) == IF step = 0 THEN w.begin
                         ELSE IF ~w.hasEnd THEN w.begin + (i - 1) * step
                         ELSE w.begin + ((i - 1) % (fit + 1)) * step
          IN (SweepParsed /\ job.sweep = SweepText(w)) =>
                /\ job.placeholder = w.placeholder
                /\ job.sequence = [i \in 1..Len(job.valid_nodes) |-> term(i)]
    /\ (SweepParsed /\ job.sweep = <<"x", "{", "1", "-", "3", "}">>
            /\ Len(job.valid_nodes) = MaxCount) =>
          SubSeq(job.sequence, 1, 8) = <<1, 2, 3, 1, 2, 3, 1, 2>>
    /\ (SweepParsed /\ job.sweep = <<"x", "{", "5", "-", "-", "1", "}">>
            /\ Len(job.valid_nodes) = MaxCount) =>
          SubSeq(job.sequence, 1, 8) = <<5, 4, 3, 2, 1, 0, -1, 5>>

\* a descending sweep has wrapped back to its begin
C11_DescendingWrapped ==
    /\ SweepParsed
    /\ job.sweep = <<"x", "{", "5", "-", "-", "1", "}">>
    /\ Len(job.sequence) = MaxCount
    /\ job.sequence[7] = -1
    /\ job.sequence[8] = 5


\* --- C12
\* C12: on every parse failure of the sweep (braces missing or unbalanced,
\* nothing before the "{", more than two comma-separated fields, a field that
\* is no integer, a step of 0, more or other dash-separated pieces than the
\* grammar allows) parseSweep returns the whole sweep text as the placeholder
\* and 0, 1, ..., N-1 as the sequence, however far the parsing had got.
C12_FailureFallsBack ==
    (SweepParsed /\ job.sweep \in SpoiltSweeps) =>
        /\ job.placeholder = job.sweep
        /\ job.sequence = [i \in 1..Len(job.valid_nodes) |-> i - 1]


\* --- C13
\* C13: a heartbeat whose nodename contains "(" or ")" or whose host cannot
\* be parsed is rejected with an error and leaves the registry unchanged: no
\* handler goes on for it, so that no last_report and no validation_state
\* entry is created, changed or deleted and no validator is started.
C13_RejectedHeartbeatChangesNothing ==
    /\ [](\A i \in Slots :
            /\ hb[i].pc # "idle" =>
                  /\ ~ContainsAny(hb[i].nodename, {"(", ")"})
                  /\ ~ParseHostAddress(hb[i].host).err
            /\ val[i].pc # "idle" =>
                  /\ ~ContainsAny(val[i].nodename, {"(", ")"})
                  /\ ~ParseHostAddress(val[i].host).err)
    /\ [][(hbCount' # hbCount /\ hb' = hb) =>
            /\ hbErr'.error # "none"
            /\ \/ ContainsAny(hbErr'.nodename, {"(", ")"})
               \/ ParseHostAddress(hbErr'.host).err
            /\ reportedTime' = reportedTime
            /\ validateNumber' = validateNumber
            /\ val' = val]_vars

\* a heartbeat with a host that cannot be parsed was rejected while a node
\* was registered and its validator running
C13_RejectedWhileValidating ==
    /\ hbErr.error = "Invalid host format"
    /\ DOMAIN reportedTime # {}
    /\ \E i \in Slots : val[i].pc = "dial"


\* --- C14
\* the final updates of the JobStore
FinalUpdates ==
    { k \in DOMAIN store : store[k].op \in {"UpdateFailedJob", "UpdateFinishedJob"} }

\* C14: for every accepted job StartClusJob makes exactly one final store
\* update, after every per-node handler has returned: UpdateFailedJob(id, F)
\* when the set F of the nodes recorded as Failed (with their exit codes) is
\* not empty, UpdateFinishedJob(id) otherwise; a node recorded as Dispatching
\* or Running, or without a record, is not in F.
C14_OneFinalUpdateAfterHandlers ==
    /\ Cardinality(FinalUpdates) = IF job.pc = "done" THEN 1 ELSE 0
    /\ \A k \in FinalUpdates :
          LET F == { n \in DOMAIN handlers :
                        /\ n \in DOMAIN job_on_nodes
                        /\ job_on_nodes[n].state = "Failed" }
          IN /\ k = Len(store)
             /\ store[k].id = job.id
             /\ \A i \in DOMAIN job.valid_nodes :
                   /\ job.valid_nodes[i] \in DOMAIN handlers
                   /\ handlers[job.valid_nodes[i]].pc = "done"
             /\ store[k].op = IF F # {} THEN "UpdateFailedJob" ELSE "UpdateFinishedJob"
             /\ DOMAIN store[k].failed = F
             /\ \A n \in F : store[k].failed[n] = job_on_nodes[n].exitCode

\* a job ended as Failed for one node while its other node had no record or
\* was left Dispatching or Running
C14_FailedWithUnfinishedNode ==
    /\ job.pc = "done"
    /\ store[Len(store)].op = "UpdateFailedJob"
    /\ Cardinality(DOMAIN store[Len(store)].failed) = 1
    /\ \E n \in DOMAIN handlers : n \notin DOMAIN job_on_nodes


\* --- C15
\* C15: once the validation_state of a node is -1 it keeps that value until
\* the node has timed out and a later heartbeat clears it (line 59): no
\* heartbeat within the timeout and no validator, one that was started
\* earlier and ends later included, puts another value in its place.
C15_ReadyStaysUntilCleared ==
    [][\A d \in DOMAIN validateNumber :
          validateNumber[d] = -1 =>
             \/ d \in DOMAIN validateNumber' /\ validateNumber'[d] = -1
             \/ /\ d \notin DOMAIN validateNumber'
                /\ \E i \in Slots : /\ hb[i].pc = "delete"
                                    /\ hb[i].display_name = d
                                    /\ hb[i].kind = "reconnect"]_vars

\* --- C16
\* the validators of a display name between marking validation_state 0
\* (line 217 or 220) and storing their outcome (lines 231-251)
InProgress(d) ==
    { i \in Slots : val[i].display_name = d /\ val[i].pc \in {"dial", "write"} }

\* C16: at any time at most one validation attempt per display name is in
\* progress, under every interleaving of the heartbeats of that node.
C16_OneAttemptInProgress ==
    \A d \in DOMAIN reportedTime : Cardinality(InProgress(d)) <= 1


\* --- C17
\* C17 as stated: validation_state becomes 10 only by a validation that
\* returned a nodename different from the expected one; a run of consecutive
\* transport or RPC failures never produces 10.
C17_TenOnlyByMismatch ==
    [][\A d \in DOMAIN validateNumber' :
          (/\ validateNumber'[d] = 10
           /\ ~(d \in DOMAIN validateNumber /\ validateNumber[d] = 10)) =>
              \E i \in Slots : /\ val[i].pc = "write"
                               /\ val'[i].pc = "idle"
                               /\ val[i].display_name = d
                               /\ val[i].result = "mismatch"]_vars

\* C17 (amended): validation_state becomes 10 by a validation that returned
\* a different nodename, or by the failure that follows a failure count of
\* 9: a failure writes the count it found plus one, whatever the count.
C17_TenByMismatchOrTenthFailure ==
    [][\A d \in DOMAIN validateNumber' :
          (/\ validateNumber'[d] = 10
           /\ ~(d \in DOMAIN validateNumber /\ validateNumber[d] = 10)) =>
              \E i \in Slots : /\ val[i].pc = "write"
                               /\ val'[i].pc = "idle"
                               /\ val[i].display_name = d
                               /\ \/ val[i].result = "mismatch"
                                  \/ /\ val[i].result \in {"dialerr", "err"}
                                     /\ val[i].number = 9]_vars

\* validation_state is 10 for a node no validation of which met a mismatch
C17_TenWithoutMismatch ==
    \E d \in DOMAIN validateNumber : validateNumber[d] = 10 /\ d \notin poisoned


\* --- C18
\* C18: when the sends to the client fail after the header was sent, every
\* handler still reads its worker stream until EOF or a receive error and
\* records the final state the stream alone determines (Finished for a last
\* exit code 0, Failed with the code otherwise, Running left after a receive
\* error), as with a connected client; and StartClusJob, its wait over once
\* every handler has returned, still writes the final state of the job.
C18_DisconnectChangesNoOutcome ==
    /\ \A n \in DOMAIN handlers :
          handlers[n].pc = "done" =>
             /\ streams[n].delivered > 0 => streams[n].ended \in {"EOF", "error"}
             /\ streams[n].ended = "EOF" =>
                   /\ n \in DOMAIN job_on_nodes
                   /\ job_on_nodes[n] = IF streams[n].lastCode = 0
                                        THEN [state |-> "Finished", exitCode |-> 0]
                                        ELSE [state |-> "Failed",
                                              exitCode |-> streams[n].lastCode]
             /\ streams[n].ended = "error" =>
                   /\ n \in DOMAIN job_on_nodes
                   /\ job_on_nodes[n].state = "Running"
    /\ (/\ job.pc = "wait"
        /\ \A i \in DOMAIN job.valid_nodes :
              /\ job.valid_nodes[i] \in DOMAIN handlers
              /\ handlers[job.valid_nodes[i]].pc = "done") => wg = 0
    /\ job.pc = "done" =>
          /\ store[Len(store)].op \in {"UpdateFailedJob", "UpdateFinishedJob"}
          /\ \A n \in DOMAIN handlers : handlers[n].pc = "done"

\* a job ended after its client had gone: nothing but the header reached the
\* client, a handler that could not forward read its stream to EOF, and the
\* final state was written
C18_FinishedWithoutClient ==
    /\ job.pc = "done"
    /\ ~clientUp
    /\ Len(out) = 1
    /\ store[Len(store)].op \in {"UpdateFailedJob", "UpdateFinishedJob"}
    /\ \E n \in DOMAIN handlers :
          /\ handlers[n].failing_to_redirect
          /\ streams[n].delivered = MaxMsgs
          /\ streams[n].ended = "EOF"

\* --- C19
\* C19: when StartJobOnNode returns, on every exit path, every output file
\* and every connection it opened has been closed.
C19_EverythingClosed ==
    \A n \in DOMAIN handlers :
        handlers[n].pc = "done" =>
            /\ handlers[n].f_out # "open"
            /\ handlers[n].f_err # "open"
            /\ handlers[n].conn # "open"


\* --- C20
\* the dash-separated pieces of the range of a sweep that ends with "}" and
\* has text before its last "{" (lines 463 and 479)
RangePieces(sweep) ==
    LET index == LastIndex(sweep, "{")
    IN IF Len(sweep) = 0 \/ sweep[Len(sweep)] # "}" \/ index <= 0 THEN <<>>
       ELSE Split(Split(SubSeq(sweep, index + 2, Len(sweep) - 1), ",")[1], "-")

\* C20 as stated: a sweep whose range splits on "-" into three pieces of
\* which neither the first nor the last is empty is a parse failure:
\* parseSweep returns the whole sweep as the placeholder and 0, 1, ..., N-1.
C20_ThreePiecesOuterNonEmpty ==
    LET parts == RangePieces(job.sweep)
    IN (SweepParsed /\ Len(parts) = 3 /\ Len(parts[1]) > 0 /\ Len(parts[3]) > 0) =>
          /\ job.placeholder = job.sweep
          /\ job.sequence = [i \in 1..Len(job.valid_nodes) |-> i - 1]

\* C20 (amended): a sweep whose range splits on "-" into three pieces of
\* which neither the first nor the second is empty is a parse failure; with
\* an empty second piece the range is begin--end, a negative end.
C20_ThreePiecesFirstTwoNonEmpty ==
    LET parts == RangePieces(job.sweep)
    IN (SweepParsed /\ Len(parts) = 3 /\ Len(parts[1]) > 0 /\ Len(parts[2]) > 0) =>
          /\ job.placeholder = job.sweep
          /\ job.sequence = [i \in 1..Len(job.valid_nodes) |-> i - 1]

\* the sweep x{1-2-3} was given for three nodes and fell back
C20_ThreeNumbersFellBack ==
    /\ SweepParsed
    /\ job.sweep = <<"x", "{", "1", "-", "2", "-", "3", "}">>
    /\ job.placeholder = job.sweep
    /\ job.sequence = <<0, 1, 2>>

====
